---- MODULE Spec2Model ----
(***************************************************************************)
(* Temperature profile plotter (src/app.py): process_file, which turns     *)
(* one sensor log into a DataFrame with an elapsed-time axis, and the      *)
(* combined Dash callback update_table_and_plot, which appends rows to the *)
(* series table, plots one trace per row, or reports temperature extrema.  *)
(*                                                                         *)
(* Representation.  A log is a sequence of lines and a line the sequence   *)
(* of its space-separated fields, each a string.  A float is a record      *)
(* [nan, v]: v is the value of a number, nan marks pandas' NaN.  A         *)
(* Datetime is a number of seconds since 01-01-24 00:00:00.                *)
(* Cumulative_Hours is kept in hundredths of an hour, the unit round(2)    *)
(* leaves it in: 150 stands for 1.5 hours.                                 *)
(***************************************************************************)
EXTENDS Integers, Sequences, FiniteSets, TLC

\* Longest log the file specification enumerates, in lines.
MaxLines == 3
\* Most rows the series table holds.
MaxRows == 2

(***************************************************************************)
(* Field tokens a log line is built from.                                  *)
(***************************************************************************)
IDs == {"S1"}
Dates == {"01-01-24", "02-01-24"}
Times == {"00:00:00", "00:00:30", "01:00:00", "03:00:00"}
\* The times the enumerated logs use; the sample logs use the hours too.
EnumTimes == {"00:00:00", "00:00:30"}
\* How an enumerated line ends: a temperature and a humidity that are
\* numerals, the text pandas reads as missing, other text, or a line that
\* stops after the temperature.
Readings ==
  {<<"20.0", "50.0">>, <<"25.0", "50.0">>, <<"null", "50.0">>,
   <<"NaNvalue", "50.0">>, <<"20.0", "NaNvalue">>, <<"20.0">>}

Lines == {<<i, d, t>> \o r : i \in IDs, d \in Dates, t \in EnumTimes, r \in Readings}

Texts == UNION {[1..n -> Lines] : n \in 0..MaxLines}

(***************************************************************************)
(* Floats and cells.                                                       *)
(***************************************************************************)
Num(v) == [nan |-> FALSE, v |-> v]
NaN == [nan |-> TRUE, v |-> 0]
\* a == b on floats: NaN equals nothing, itself included.
FloatEq(a, b) == ~a.nan /\ ~b.nan /\ a.v = b.v

\* A cell read_csv hands back before any conversion: a string, or missing.
Str(s) == [na |-> FALSE, s |-> s]
Missing == [na |-> TRUE, s |-> ""]

\* The strings read_csv reads as a missing value (its default na_values).
na_values ==
  {"", "#N/A", "#N/A N/A", "#NA", "-1.#IND", "-1.#QNAN", "-NaN", "-nan",
   "1.#IND", "1.#QNAN", "<NA>", "N/A", "NA", "NULL", "NaN", "None", "n/a",
   "nan", "null"}

\* The numerals of the logs and the floats they denote.
Numerals == {"20.0", "22.0", "25.0", "50.0", "52.0", "55.0"}
FloatOf(s) ==
  CASE s = "20.0" -> 20 [] s = "22.0" -> 22 [] s = "25.0" -> 25
    [] s = "50.0" -> 50 [] s = "52.0" -> 52 [] s = "55.0" -> 55

\* Days since 01-01-24 of a %d-%m-%y date, seconds since midnight of a
\* %H:%M:%S time.
DayOf(d) == CASE d = "01-01-24" -> 0 [] d = "02-01-24" -> 1
SecondOf(t) ==
  CASE t = "00:00:00" -> 0 [] t = "00:00:30" -> 30
    [] t = "01:00:00" -> 3600 [] t = "03:00:00" -> 10800

\* pd.to_datetime(s, format='%d-%m-%y %H:%M:%S') of the joined string.
to_datetime(s) ==
  LET dt == CHOOSE p \in Dates \X Times : s = p[1] \o " " \o p[2]
  IN  DayOf(dt[1]) * 86400 + SecondOf(dt[2])

(***************************************************************************)
(* process_file.                                                           *)
(***************************************************************************)
\* Field k of a line as read_csv reads it under names=[...five names]: a
\* line shorter than the names is padded with missing values, and a field
\* spelled as one of na_values is a missing value.
Cell(line, k) ==
  IF k > Len(line) \/ line[k] \in na_values THEN Missing ELSE Str(line[k])

\* pd.read_csv(..., sep=" ", header=None, names=[ID, Date, Time, Temp, Humidity])
read_csv(text) ==
  [i \in 1..Len(text) |->
     [ID |-> Cell(text[i], 1), Date |-> Cell(text[i], 2), Time |-> Cell(text[i], 3),
      Temp |-> Cell(text[i], 4), Humidity |-> Cell(text[i], 5)]]

\* pd.to_numeric on one cell: a missing value stays NaN, a numeral becomes
\* its float, anything else raises ValueError.
Coercible(c) == c.na \/ c.s \in Numerals
to_numeric(c) == IF c.na THEN NaN ELSE Num(FloatOf(c.s))

\* Variants of Time_Diff: a step backwards counted as 0; the difference
\* taken the other way round.
Time_Diff_Clamped(dts, i) ==
  IF i = 1 THEN 0 ELSE IF dts[i] < dts[i - 1] THEN 0 ELSE dts[i] - dts[i - 1]
Time_Diff_Reversed(dts, i) == IF i = 1 THEN 0 ELSE dts[i - 1] - dts[i]
\* df['Datetime'].diff().fillna(Timedelta(0)).dt.total_seconds() at row i:
\* the signed difference to the previous row, 0 in the first row.
Time_Diff(dts, i) == IF i = 1 THEN 0 ELSE dts[i] - dts[i - 1]

\* df['Time_Diff'].cumsum() at row i.
RECURSIVE Cumulative_Time(_, _)
Cumulative_Time(dts, i) ==
  IF i = 0 THEN 0 ELSE Cumulative_Time(dts, i - 1) + Time_Diff(dts, i)

\* (seconds / 3600).round(2), in hundredths of an hour: seconds / 36 to the
\* nearest integer, a tie going to the even one (numpy's rint).
Cumulative_Hours(secs) ==
  LET q == secs \div 36
      r == secs % 36
  IN  IF r < 18 THEN q
      ELSE IF r > 18 THEN q + 1
      ELSE IF q % 2 = 0 THEN q ELSE q + 1

\* What requests.get delivers: a connection error, or a status and a body.
Response(err, code, text) == [error |-> err, status_code |-> code, text |-> text]
ConnectionFailed == Response("ConnectionError", 0, <<>>)
NotFound == Response("none", 404, <<>>)
Ok(text) == Response("none", 200, text)

NoFrame == <<>>

\* process_file: the DataFrame returned, or the exception raised.
process_file(response) ==
  LET raw == read_csv(response.text)
      dts == [i \in 1..Len(raw) |-> to_datetime(raw[i].Date.s \o " " \o raw[i].Time.s)]
  IN  IF response.error # "none" THEN [raised |-> response.error, df |-> NoFrame]
      ELSE IF response.status_code >= 400 /\ response.status_code < 600
        THEN [raised |-> "HTTPError", df |-> NoFrame]
      ELSE IF Len(response.text) = 0
        THEN [raised |-> "EmptyDataError", df |-> NoFrame]
      ELSE IF \E i \in 1..Len(raw) : ~Coercible(raw[i].Temp) \/ ~Coercible(raw[i].Humidity)
        THEN [raised |-> "ValueError", df |-> NoFrame]
      ELSE [raised |-> "none",
            df |-> [i \in 1..Len(raw) |->
                      [ID |-> raw[i].ID.s, Date |-> raw[i].Date.s, Time |-> raw[i].Time.s,
                       Temp |-> to_numeric(raw[i].Temp),
                       Humidity |-> to_numeric(raw[i].Humidity),
                       Datetime |-> dts[i],
                       Time_Diff |-> Time_Diff(dts, i),
                       Cumulative_Time |-> Cumulative_Time(dts, i),
                       Cumulative_Hours |-> Cumulative_Hours(Cumulative_Time(dts, i))]]]

(***************************************************************************)
(* The extrema of update_table_and_plot's show-summary branch.             *)
(***************************************************************************)
Numbers(df) == {df[i].Temp.v : i \in {j \in 1..Len(df) : ~df[j].Temp.nan}}

\* df['Temp'].min(): the smallest number of the column, NaN skipped; NaN
\* when the column holds no number.
SeriesMin(df) ==
  IF Numbers(df) = {} THEN NaN
  ELSE Num(CHOOSE m \in Numbers(df) : \A v \in Numbers(df) : m <= v)
\* Variant of SeriesMax: the first number of the column.
SeriesMax_First(df) ==
  IF Numbers(df) = {} THEN NaN
  ELSE Num(df[CHOOSE i \in 1..Len(df) : ~df[i].Temp.nan /\ \A j \in 1..(i - 1) : df[j].Temp.nan].Temp.v)
\* df['Temp'].max(): the largest number of the column, likewise.
SeriesMax(df) ==
  IF Numbers(df) = {} THEN NaN
  ELSE Num(CHOOSE m \in Numbers(df) : \A v \in Numbers(df) : m >= v)

\* The rows df['Temp'] == x selects.
Selected(df, x) == {i \in 1..Len(df) : FloatEq(df[i].Temp, x)}

\* Variant of DatetimeAt: .iloc[-1].
DatetimeAtLast(df, x) ==
  df[CHOOSE i \in Selected(df, x) : \A j \in Selected(df, x) : j <= i].Datetime
\* df.loc[df['Temp'] == x, 'Datetime'].iloc[0]; IndexError when no row is
\* selected (Extrema tests Selected first).
DatetimeAt(df, x) ==
  df[CHOOSE i \in Selected(df, x) : \A j \in Selected(df, x) : i <= j].Datetime

NoInfo == [none |-> TRUE, temp |-> NaN, time |-> 0]
\* f"Max Temp: {temp}C at {time}": the two values the text carries.
Info(temp, time) == [none |-> FALSE, temp |-> temp, time |-> time]

\* One pass of the loop body, lines 175-181, over one DataFrame.
Extrema(df) ==
  IF Selected(df, SeriesMax(df)) = {} \/ Selected(df, SeriesMin(df)) = {}
  THEN [raised |-> "IndexError", max_temp_info |-> NoInfo, min_temp_info |-> NoInfo]
  ELSE [raised |-> "none",
        max_temp_info |-> Info(SeriesMax(df), DatetimeAt(df, SeriesMax(df))),
        min_temp_info |-> Info(SeriesMin(df), DatetimeAt(df, SeriesMin(df)))]

(***************************************************************************)
(* State.                                                                  *)
(***************************************************************************)
VARIABLES
  response,   \* the response requests.get delivered to the process_file call under study
  pc,         \* where that call stands: "call", "returned", "summarized", "raised"
  result,     \* what process_file returned or raised
  extrema,    \* the extrema computed from the returned DataFrame
  table,      \* sensor-table.data, the rows shown
  figure,     \* temperature-plot.figure, as shown
  summary,    \* summary-section.children, as shown
  files,      \* the file server: URL -> response
  call        \* the callback run by the last step, if it was one

vars == <<response, pc, result, extrema, table, figure, summary, files, call>>
fileVars == <<response, pc, result, extrema>>
appVars == <<table, figure, summary, files, call>>

NoResult == [raised |-> "none", df |-> NoFrame]
NoExtrema == [raised |-> "none", max_temp_info |-> NoInfo, min_temp_info |-> NoInfo]

(***************************************************************************)
(* The series table and the callback.                                      *)
(***************************************************************************)
MeterIds == {"M1", "M2"}
SensorIds == {"S1"}
Legends == {"A", "B"}
Colors == {"#000000"}
Titles == {"", "Site 7"}

Row(m, s, l, c) == [meter_id |-> m, sensor_id |-> s, legend |-> l, color |-> c]

file_url(meter_id, sensor_id) ==
  "https://fileserv.c-probe.in/" \o meter_id \o "_" \o sensor_id \o ".txt"
Urls == {file_url(m, s) : m \in MeterIds, s \in SensorIds}

\* The log of section 8 of the specification, and one whose maximum is
\* attained twice, the later reading first.
SampleA ==
  << <<"S1", "01-01-24", "00:00:00", "20.0", "50.0">>,
     <<"S1", "01-01-24", "01:00:00", "25.0", "55.0">>,
     <<"S1", "01-01-24", "03:00:00", "22.0", "52.0">> >>
SampleB ==
  << <<"S1", "02-01-24", "00:00:00", "25.0", "50.0">>,
     <<"S1", "01-01-24", "00:00:30", "25.0", "50.0">>,
     <<"S1", "01-01-24", "01:00:00", "22.0", "52.0">> >>
\* The log each URL serves while it serves one, and what a request for the
\* URL can meet.
LogOf(url) == IF url = file_url("M1", "S1") THEN SampleA ELSE SampleB
ServerResponses(url) == {ConnectionFailed, NotFound, Ok(LogOf(url))}

NoFigure == [set |-> FALSE, data |-> <<>>, title |-> ""]
Figure(traces, title) == [set |-> TRUE, data |-> traces, title |-> title]
NoSummary == [set |-> FALSE, max_temp_info |-> NoInfo, min_temp_info |-> NoInfo]
Summary(mx, mn) == [set |-> TRUE, max_temp_info |-> mx, min_temp_info |-> mn]

\* go.Scatter(x=df['Cumulative_Hours'], y=df['Temp'], name=legend, line=dict(color=color))
Scatter(df, legend, color) ==
  [x |-> [i \in 1..Len(df) |-> df[i].Cumulative_Hours],
   y |-> [i \in 1..Len(df) |-> df[i].Temp],
   mode |-> "lines", name |-> legend, line |-> [color |-> color]]

\* The plot-graph loop after its first n rows: the traces built, the URLs
\* requested, and the exception that ended it, if one did.
\* Variants of plot_loop: one that passes over a row whose log cannot be
\* had, one that puts each new trace first.
RECURSIVE plot_loop_skipping(_, _, _)
plot_loop_skipping(rows, srv, n) ==
  IF n = 0 THEN [raised |-> "none", traces |-> <<>>, fetched |-> <<>>]
  ELSE LET prev == plot_loop_skipping(rows, srv, n - 1)
           url == file_url(rows[n].meter_id, rows[n].sensor_id)
           r == process_file(srv[url])
       IN  IF r.raised # "none"
           THEN [prev EXCEPT !.fetched = Append(@, url)]
           ELSE [prev EXCEPT !.fetched = Append(@, url),
                             !.traces = Append(@, Scatter(r.df, rows[n].legend, rows[n].color))]
RECURSIVE plot_loop_prepending(_, _, _)
plot_loop_prepending(rows, srv, n) ==
  IF n = 0 THEN [raised |-> "none", traces |-> <<>>, fetched |-> <<>>]
  ELSE LET prev == plot_loop_prepending(rows, srv, n - 1)
           url == file_url(rows[n].meter_id, rows[n].sensor_id)
           r == process_file(srv[url])
       IN  IF prev.raised # "none" THEN prev
           ELSE IF r.raised # "none"
             THEN [prev EXCEPT !.raised = r.raised, !.fetched = Append(@, url)]
           ELSE [prev EXCEPT !.fetched = Append(@, url),
                             !.traces = <<Scatter(r.df, rows[n].legend, rows[n].color)>> \o @]
RECURSIVE plot_loop(_, _, _)
plot_loop(rows, srv, n) ==
  IF n = 0 THEN [raised |-> "none", traces |-> <<>>, fetched |-> <<>>]
  ELSE LET prev == plot_loop(rows, srv, n - 1)
           url == file_url(rows[n].meter_id, rows[n].sensor_id)
           r == process_file(srv[url])
       IN  IF prev.raised # "none" THEN prev
           ELSE IF r.raised # "none"
             THEN [prev EXCEPT !.raised = r.raised, !.fetched = Append(@, url)]
           ELSE [prev EXCEPT !.fetched = Append(@, url),
                             !.traces = Append(@, Scatter(r.df, rows[n].legend, rows[n].color))]

\* The show-summary loop after its first n rows: max_temp_info and
\* min_temp_info as last assigned, the URLs requested, the exception.
\* Variant of summary_loop: the extrema over all rows so far.
RECURSIVE summary_loop_keeping_max(_, _, _)
summary_loop_keeping_max(rows, srv, n) ==
  IF n = 0
  THEN [raised |-> "none", max_temp_info |-> NoInfo, min_temp_info |-> NoInfo, fetched |-> <<>>]
  ELSE LET prev == summary_loop_keeping_max(rows, srv, n - 1)
           url == file_url(rows[n].meter_id, rows[n].sensor_id)
           r == process_file(srv[url])
           e == Extrema(r.df)
       IN  IF prev.raised # "none" THEN prev
           ELSE IF r.raised # "none"
             THEN [prev EXCEPT !.raised = r.raised, !.fetched = Append(@, url)]
           ELSE IF e.raised # "none"
             THEN [prev EXCEPT !.raised = e.raised, !.fetched = Append(@, url)]
           ELSE [raised |-> "none",
                 max_temp_info |->
                   IF prev.max_temp_info.none \/ e.max_temp_info.temp.v > prev.max_temp_info.temp.v
                   THEN e.max_temp_info ELSE prev.max_temp_info,
                 min_temp_info |->
                   IF prev.min_temp_info.none \/ e.min_temp_info.temp.v < prev.min_temp_info.temp.v
                   THEN e.min_temp_info ELSE prev.min_temp_info,
                 fetched |-> Append(prev.fetched, url)]
RECURSIVE summary_loop(_, _, _)
summary_loop(rows, srv, n) ==
  IF n = 0
  THEN [raised |-> "none", max_temp_info |-> NoInfo, min_temp_info |-> NoInfo, fetched |-> <<>>]
  ELSE LET prev == summary_loop(rows, srv, n - 1)
           url == file_url(rows[n].meter_id, rows[n].sensor_id)
           r == process_file(srv[url])
           e == Extrema(r.df)
       IN  IF prev.raised # "none" THEN prev
           ELSE IF r.raised # "none"
             THEN [prev EXCEPT !.raised = r.raised, !.fetched = Append(@, url)]
           ELSE IF e.raised # "none"
             THEN [prev EXCEPT !.raised = e.raised, !.fetched = Append(@, url)]
           ELSE [raised |-> "none", max_temp_info |-> e.max_temp_info,
                 min_temp_info |-> e.min_temp_info, fetched |-> Append(prev.fetched, url)]

(***************************************************************************)
(* The callback, one action per trigger.  An exception leaves the three    *)
(* outputs as they are shown: Dash answers the request with an error and   *)
(* updates nothing.  The State values a branch does not read are not       *)
(* drawn.  A trigger is a click, which has already raised the button's     *)
(* n_clicks, so the n_clicks > 0 half of each branch condition holds.      *)
(***************************************************************************)
NoCall ==
  [trigger |-> "none", raised |-> "none", fetched |-> <<>>, existing_data |-> <<>>,
   meter_id |-> "", sensor_id |-> "", legend |-> "", color |-> ""]

\* Lines 125-132: the table the update-table branch returns.
\* (Variant: the legend is not looked at.)
updated_data_unchecked(existing_data, meter_id, sensor_id, legend, color) ==
  IF meter_id # "" /\ sensor_id # ""
  THEN existing_data \o <<Row(meter_id, sensor_id, legend, color)>>
  ELSE existing_data
updated_data(existing_data, meter_id, sensor_id, legend, color) ==
  IF meter_id # "" /\ sensor_id # "" /\ legend # ""
  THEN existing_data \o <<Row(meter_id, sensor_id, legend, color)>>
  ELSE existing_data

UpdateTable(meter_id, sensor_id, legend, color) ==
  /\ pc = "off"
  /\ Len(updated_data(table, meter_id, sensor_id, legend, color)) <= MaxRows
  /\ table' = updated_data(table, meter_id, sensor_id, legend, color)
  /\ figure' = NoFigure
  /\ summary' = NoSummary
  /\ call' = [NoCall EXCEPT !.trigger = "update-table", !.existing_data = table,
                            !.meter_id = meter_id, !.sensor_id = sensor_id,
                            !.legend = legend, !.color = color]
  /\ UNCHANGED <<files, fileVars>>

\* Line 155.
plot_title(title) == IF title # "" THEN title ELSE "Temperature Profile"

PlotGraph(title) ==
  LET r == plot_loop(table, files, Len(table))
  IN  /\ pc = "off"
      /\ call' = [NoCall EXCEPT !.trigger = "plot-graph", !.existing_data = table,
                                !.raised = r.raised, !.fetched = r.fetched]
      /\ IF r.raised # "none"
         THEN UNCHANGED <<table, figure, summary>>
         ELSE /\ table' = table
              /\ figure' = Figure(r.traces, plot_title(title))
              /\ summary' = NoSummary
      /\ UNCHANGED <<files, fileVars>>

ShowSummary ==
  LET r == summary_loop(table, files, Len(table))
  IN  /\ pc = "off"
      /\ call' = [NoCall EXCEPT !.trigger = "show-summary", !.existing_data = table,
                                !.raised = r.raised, !.fetched = r.fetched]
      /\ IF r.raised # "none"
         THEN UNCHANGED <<table, figure, summary>>
         ELSE /\ table' = table
              /\ figure' = NoFigure
              /\ summary' = Summary(r.max_temp_info, r.min_temp_info)
      /\ UNCHANGED <<files, fileVars>>

\* row_deletable=True: the user removes row i in the browser; no callback runs.
DeleteRow(i) ==
  /\ pc = "off"
  /\ i \in 1..Len(table)
  /\ table' = SubSeq(table, 1, i - 1) \o SubSeq(table, i + 1, Len(table))
  /\ call' = NoCall
  /\ UNCHANGED <<figure, summary, files, fileVars>>

\* The file server, outside the program: a log stops being served, or is
\* served again.
ServerChange(url, r) ==
  /\ pc = "off"
  /\ files[url] # r
  /\ files' = [files EXCEPT ![url] = r]
  /\ call' = NoCall
  /\ UNCHANGED <<table, figure, summary, fileVars>>

Init ==
  /\ table = <<>>
  /\ figure = NoFigure
  /\ summary = NoSummary
  /\ call = NoCall
  /\ files \in {f \in [Urls -> UNION {ServerResponses(u) : u \in Urls}] :
                  \A u \in Urls : f[u] \in ServerResponses(u)}
  /\ response = ConnectionFailed
  /\ pc = "off"
  /\ result = NoResult
  /\ extrema = NoExtrema

Next ==
  \/ \E m \in MeterIds \cup {""}, s \in SensorIds \cup {""}, l \in Legends \cup {""},
        c \in Colors : UpdateTable(m, s, l, c)
  \/ \E t \in Titles : PlotGraph(t)
  \/ ShowSummary
  \/ \E i \in 1..MaxRows : DeleteRow(i)
  \/ \E u \in Urls : \E r \in ServerResponses(u) : ServerChange(u, r)

Spec == Init /\ [][Next]_vars

(***************************************************************************)
(* One call of process_file on an arbitrary response, followed by the      *)
(* extrema of the DataFrame it returned.                                   *)
(***************************************************************************)
ProcessFile ==
  /\ pc = "call"
  /\ result' = process_file(response)
  /\ pc' = IF result'.raised = "none" THEN "returned" ELSE "raised"
  /\ UNCHANGED <<response, extrema, appVars>>

ComputeExtrema ==
  /\ pc = "returned"
  /\ extrema' = Extrema(result.df)
  /\ pc' = IF extrema'.raised = "none" THEN "summarized" ELSE "raised"
  /\ UNCHANGED <<response, result, appVars>>

InitFile ==
  /\ response \in {ConnectionFailed, NotFound} \cup {Ok(t) : t \in Texts}
  /\ pc = "call"
  /\ result = NoResult
  /\ extrema = NoExtrema
  /\ table = <<>>
  /\ figure = NoFigure
  /\ summary = NoSummary
  /\ call = NoCall
  /\ files = [u \in Urls |-> NotFound]

NextFile == ProcessFile \/ ComputeExtrema

SpecFile == InitFile /\ [][NextFile]_vars

(***************************************************************************)
(* Properties of process_file and of the extrema, under SpecFile.          *)
(***************************************************************************)
\* process_file has returned a DataFrame.
Returned == pc \in {"returned", "summarized", "raised"} /\ result.raised = "none"

\* The instant a line's date and time fields name, in seconds.
Timestamp(line) == DayOf(line[2]) * 86400 + SecondOf(line[3])

RECURSIVE SumOfDiffs(_, _)
SumOfDiffs(df, i) == IF i = 0 THEN 0 ELSE SumOfDiffs(df, i - 1) + df[i].Time_Diff

Abs(n) == IF n < 0 THEN -n ELSE n

\* C1: in every DataFrame process_file returns there is one row per line, at
\* least one; the elapsed seconds of the first row are 0 and those of every
\* later row are its timestamp minus the previous row's, negative when time
\* goes backwards; the cumulative seconds are the running sum of the elapsed
\* seconds; and the cumulative hours are the cumulative seconds over 3600 to
\* the nearest hundredth.
C1_DerivedFields ==
  Returned =>
    LET df == result.df
        text == response.text
    IN  /\ Len(df) = Len(text)
        /\ Len(df) >= 1
        /\ \A i \in 1..Len(df) :
             /\ df[i].Datetime = Timestamp(text[i])
             /\ df[i].Time_Diff =
                  IF i = 1 THEN 0 ELSE Timestamp(text[i]) - Timestamp(text[i - 1])
             /\ df[i].Cumulative_Time = SumOfDiffs(df, i)
             /\ Abs(36 * df[i].Cumulative_Hours - df[i].Cumulative_Time) <= 18

\* A returned DataFrame of three rows in which time goes forwards and then
\* back to before the first reading.
C1_Witness ==
  /\ Returned
  /\ Len(result.df) = 3
  /\ result.df[2].Time_Diff > 0
  /\ result.df[3].Time_Diff < 0
  /\ result.df[3].Cumulative_Hours < 0

StrictlyIncreasing(df) ==
  \A i \in 1..(Len(df) - 1) : df[i].Datetime < df[i + 1].Datetime

\* C2: when the timestamps of a returned DataFrame strictly increase down the
\* rows, its cumulative hours never decrease from one row to the next.
C2_HoursNonDecreasing ==
  (Returned /\ StrictlyIncreasing(result.df)) =>
    \A i \in 1..(Len(result.df) - 1) :
      result.df[i].Cumulative_Hours <= result.df[i + 1].Cumulative_Hours

\* A returned DataFrame of three rows in increasing time whose hours grow
\* at each row.
C2_Witness ==
  /\ Returned
  /\ Len(result.df) = 3
  /\ StrictlyIncreasing(result.df)
  /\ result.df[1].Cumulative_Hours < result.df[2].Cumulative_Hours
  /\ result.df[2].Cumulative_Hours < result.df[3].Cumulative_Hours

\* The rows of df whose temperature is the number v.
Attaining(df, v) == {i \in 1..Len(df) : ~df[i].Temp.nan /\ df[i].Temp.v = v}

\* info reports the largest temperature of df and the time of the first row,
\* in row order, that has it.
ReportsMax(df, info) ==
  /\ ~info.none
  /\ ~info.temp.nan
  /\ \A i \in 1..Len(df) : ~df[i].Temp.nan => df[i].Temp.v <= info.temp.v
  /\ \E i \in Attaining(df, info.temp.v) :
       /\ \A j \in Attaining(df, info.temp.v) : i <= j
       /\ info.time = df[i].Datetime

ReportsMin(df, info) ==
  /\ ~info.none
  /\ ~info.temp.nan
  /\ \A i \in 1..Len(df) : ~df[i].Temp.nan => df[i].Temp.v >= info.temp.v
  /\ \E i \in Attaining(df, info.temp.v) :
       /\ \A j \in Attaining(df, info.temp.v) : i <= j
       /\ info.time = df[i].Datetime

Earliest(df, rows) ==
  CHOOSE t \in {df[i].Datetime : i \in rows} : \A i \in rows : t <= df[i].Datetime

\* The timestamps of the rows in rows never decrease down the DataFrame.
InTimeOrder(df, rows) ==
  \A i, j \in rows : i < j => df[i].Datetime <= df[j].Datetime

Shared(df, info) == Cardinality(Attaining(df, info.temp.v)) >= 2

\* Every line of the body has its five fields, the last two numerals.
WellFormed(text) ==
  \A i \in 1..Len(text) :
    Len(text[i]) = 5 /\ text[i][4] \in Numerals /\ text[i][5] \in Numerals

\* C4 as stated, on logs of well-formed lines: whenever several rows share
\* the maximum (the minimum), the time reported with it is the earliest
\* timestamp among those rows.
C4_EarliestTimestamp ==
  (pc = "summarized" /\ WellFormed(response.text)) =>
    /\ Shared(result.df, extrema.max_temp_info) =>
         extrema.max_temp_info.time =
           Earliest(result.df, Attaining(result.df, extrema.max_temp_info.temp.v))
    /\ Shared(result.df, extrema.min_temp_info) =>
         extrema.min_temp_info.time =
           Earliest(result.df, Attaining(result.df, extrema.min_temp_info.temp.v))

\* C4 as amended: whenever several rows share the maximum (the minimum) and
\* the timestamps of those rows do not decrease down the input, the time
\* reported with it is the earliest timestamp among those rows.
C4_EarliestWhenInOrder ==
  pc = "summarized" =>
    /\ (/\ Shared(result.df, extrema.max_temp_info)
        /\ InTimeOrder(result.df, Attaining(result.df, extrema.max_temp_info.temp.v))) =>
         extrema.max_temp_info.time =
           Earliest(result.df, Attaining(result.df, extrema.max_temp_info.temp.v))
    /\ (/\ Shared(result.df, extrema.min_temp_info)
        /\ InTimeOrder(result.df, Attaining(result.df, extrema.min_temp_info.temp.v))) =>
         extrema.min_temp_info.time =
           Earliest(result.df, Attaining(result.df, extrema.min_temp_info.temp.v))

\* Extrema of a DataFrame whose maximum is shared by two rows, the earlier
\* reading first.
C4_Witness ==
  /\ pc = "summarized"
  /\ Shared(result.df, extrema.max_temp_info)
  /\ \E i, j \in Attaining(result.df, extrema.max_temp_info.temp.v) :
       i < j /\ result.df[i].Datetime < result.df[j].Datetime

\* process_file has run on a body that was delivered with a success status.
Parsed == pc # "call" /\ pc # "off" /\ response.error = "none" /\ response.status_code = 200

\* C7 as stated: a body with a line of only four fields makes process_file
\* raise; no DataFrame is returned for it.
C7_ShortLineRaises ==
  (Parsed /\ \E i \in 1..Len(response.text) : Len(response.text[i]) = 4) =>
    result.raised # "none"

\* C8 as stated: a body in which the temperature or the humidity field of
\* some line is not a number makes process_file raise; no DataFrame is
\* returned for it.
C8_NonNumericRaises ==
  (Parsed /\ \E i \in 1..Len(response.text) : \E k \in {4, 5} :
              k <= Len(response.text[i]) /\ response.text[i][k] \notin Numerals) =>
    result.raised # "none"

(***************************************************************************)
(* Properties of the callback, under Spec.                                 *)
(***************************************************************************)
UrlOf(row) == file_url(row.meter_id, row.sensor_id)

\* C5: after a plot-graph action in which nothing raised, the figure holds
\* one trace per row of the table, in the table's order, and trace j has the
\* legend and the color of row j, the cumulative hours of the log served for
\* row j as x and its temperatures as y.
C5_TracesInOrder ==
  (call.trigger = "plot-graph" /\ call.raised = "none") =>
    /\ figure.set
    /\ Len(figure.data) = Len(call.existing_data)
    /\ \A j \in 1..Len(call.existing_data) :
         LET row == call.existing_data[j]
             df == process_file(files[UrlOf(row)]).df
         IN  /\ figure.data[j].name = row.legend
             /\ figure.data[j].line.color = row.color
             /\ figure.data[j].x = [i \in 1..Len(df) |-> df[i].Cumulative_Hours]
             /\ figure.data[j].y = [i \in 1..Len(df) |-> df[i].Temp]

\* A plot of two rows that differ in meter and in legend.
C5_Witness ==
  /\ call.trigger = "plot-graph"
  /\ call.raised = "none"
  /\ Len(figure.data) = 2
  /\ table[1].meter_id # table[2].meter_id
  /\ figure.data[1].name # figure.data[2].name
  /\ figure.data[1].x # figure.data[2].x

\* The request for a row's log fails: no connection, or an error status.
RetrievalFails(row) ==
  \/ files[UrlOf(row)].error # "none"
  \/ files[UrlOf(row)].status_code >= 400

RetrievalError(row) ==
  IF files[UrlOf(row)].error # "none" THEN files[UrlOf(row)].error ELSE "HTTPError"

\* C6: a plot-graph or show-summary action over a table with a row whose
\* retrieval fails raises the retrieval error of the first such row, has
\* requested the logs of the rows up to that one and of no later row, and
\* leaves the table, the figure and the summary as they were shown.
C6_FailsWhole ==
  [][(/\ call'.trigger \in {"plot-graph", "show-summary"}
      /\ \E k \in 1..Len(table) : RetrievalFails(table[k]))
     => \E k \in 1..Len(table) :
          /\ RetrievalFails(table[k])
          /\ \A j \in 1..(k - 1) : ~RetrievalFails(table[j])
          /\ call'.raised = RetrievalError(table[k])
          /\ call'.fetched = [j \in 1..k |-> UrlOf(table[j])]
          /\ UNCHANGED <<table, figure, summary>>]_vars

\* A plot that failed at its second row, after the first row's log was
\* fetched, with an earlier figure still shown.
C6_Witness ==
  /\ call.trigger = "plot-graph"
  /\ call.raised = "HTTPError"
  /\ Len(call.existing_data) = 2
  /\ Len(call.fetched) = 2
  /\ figure.set
  /\ Len(figure.data) >= 1

\* C9: after a show-summary action over one or more rows in which nothing
\* raised, the summary shown is the extrema of the log served for the last
\* row of the table.
C9_LastSeriesWins ==
  (call.trigger = "show-summary" /\ call.raised = "none" /\ Len(call.existing_data) >= 1) =>
    LET last == call.existing_data[Len(call.existing_data)]
        df == process_file(files[UrlOf(last)]).df
    IN  /\ summary.set
        /\ ReportsMax(df, summary.max_temp_info)
        /\ ReportsMin(df, summary.min_temp_info)

\* A summary over two rows whose logs differ; an earlier row has a lower
\* minimum than the one shown.
C9_Witness ==
  /\ call.trigger = "show-summary"
  /\ call.raised = "none"
  /\ Len(call.existing_data) = 2
  /\ summary.set
  /\ \E i \in 1..Len(process_file(files[UrlOf(call.existing_data[1])]).df) :
       process_file(files[UrlOf(call.existing_data[1])]).df[i].Temp.v
         < summary.min_temp_info.temp.v

\* C10: a callback changes the table only when it is an update-table action
\* with meter_id, sensor_id and legend all non-empty, and then the table is
\* the old rows, unchanged and in order, followed by one row holding the
\* four entered values; every other callback leaves the table as it was.
C10_TableFrame ==
  [][call'.trigger # "none" =>
       IF /\ call'.trigger = "update-table"
          /\ call'.meter_id # "" /\ call'.sensor_id # "" /\ call'.legend # ""
       THEN table' = table \o <<[meter_id |-> call'.meter_id, sensor_id |-> call'.sensor_id,
                                 legend |-> call'.legend, color |-> call'.color]>>
       ELSE table' = table]_vars

\* An update-table action that appended a second, different row.
C10_Witness ==
  /\ call.trigger = "update-table"
  /\ Len(table) = 2
  /\ Len(call.existing_data) = 1
  /\ table[1] # table[2]
  /\ table[2].legend = call.legend

====
